---- MODULE Spec2Model ----
(***************************************************************************)
(* Charging-station lease core of xianfire: the transaction endpoints of   *)
(* controllers/firebaseController.js (startChargingSession,                *)
(* stopChargingSession) and models/transactionModel.js (createTransaction, *)
(* completeTransaction), run by concurrent request handlers over one       *)
(* Firestore store.  Every `await` of a handler is a point where other     *)
(* handlers may run, so a handler is a sequence of atomic steps, one per   *)
(* store operation, each followed by the synchronous code up to the next   *)
(* store operation.  utils/gpioControl.js, the relay outputs, is modelled   *)
(* too; the request handlers never call it.                                *)
(***************************************************************************)
EXTENDS Integers, Sequences, FiniteSets, TLC

VARIABLES
    students,      \* collection "students": rfid -> [points, lastUsed]
    transactions,  \* collection "transactions": sequence of documents, id = index
    now,           \* the server clock, whole seconds (Timestamp.now().seconds)
    pc,            \* per handler: the store operation it is about to perform
    ctx,           \* per handler: request body and local constants of the handler
    resp,          \* per handler: the HTTP response sent (code 0 = none yet)
    requests,      \* number of requests accepted so far
    debited,       \* history: per transaction id, the debit written to the balance
    credited,      \* history: per transaction id, the refunds written to the balance
    gpioInstances, \* gpioControl: socket number -> the Gpio object kept for it
    running,       \* the server process has not exited
    calls,         \* history: the calls of gpioControl and what each did to its output
    constructed,   \* history: the number of Gpio objects constructed so far
    result,        \* the last query served and the value it returned
    authUsers,     \* Firebase Authentication: the set of users, [uid, email]
    adminAvailable,\* firebaseAdmin: the Admin SDK was initialized
    reg            \* per handler of registerUser: its position, request and locals

\* the state of the gpioControl module
relayVars == <<gpioInstances, running, calls, constructed>>

\* the state of the query endpoints
queryVars == <<result>>

\* the state registerUser works on besides the collection "students"
registerVars == <<authUsers, adminAvailable, reg>>

vars == <<students, transactions, now, pc, ctx, resp, requests, debited, credited,
          gpioInstances, running, calls, constructed, result,
          authUsers, adminAvailable, reg>>

----------------------------------------------------------------------------
(* Bounds of the model *)

MaxRequests == 2       \* requests accepted in one behaviour (Spec)
MaxTicks == 1          \* clock ticks in one behaviour (Spec)
InitPoints == 3        \* balance every account had before its first lease (Spec)
MaxPoints == 10        \* largest pointsToSpend of SpecBilling
MaxOvertime == 6       \* SpecBilling stops up to this many seconds past the expected end
MaxLateRequests == 1   \* requests accepted in one behaviour (SpecLate)
MaxLateTicks == 3      \* clock ticks in one behaviour (SpecLate)
MaxDocs == 2           \* documents in an enumerated store (SpecQueries)
MaxCreatedAt == 1      \* largest createdAt in an enumerated store (SpecQueries)
MaxLimit == 2          \* largest limit of a query (SpecQueries)
MaxStatDocs == 3       \* documents in an enumerated store (SpecStats)
MaxStatPoints == 2     \* largest pointsUsed in an enumerated store (SpecStats)
MaxStatDuration == 3   \* the duration of a finalized lease is 0 or this (SpecStats)
MaxRegistrations == 2  \* registerUser requests in one behaviour (SpecRegister)
MaxCalls == 4          \* calls of turnOnSocket / turnOffSocket in one behaviour (SpecRelay)

(* Program constants *)

SecondsPerPoint == 120
RegisterPoints == 100
HistoryDefault == 50
AllDefault == 100

TickStep == SecondsPerPoint

Procs == {1, 2}                  \* the request handlers that can be running at once
Holders == {"h1", "h2"}

\* The request bodies of Spec: leases of one and two points for every
\* holder, and one body for each way a start request can be malformed or
\* refused ("h0" has no account document)
StartBody(rfid, pointsToSpend, socketNumber) ==
    [rfid |-> rfid, pointsToSpend |-> pointsToSpend,
     socketType |-> "Universal Charger", socketNumber |-> socketNumber]
StartBodies ==
    {StartBody(h, n, 1) : h \in Holders, n \in {1, 2}}
    \cup {StartBody("h0", 1, 1), StartBody("h2", 0, 1), StartBody("h2", -1, 2)}
StatusChoices == {"cancelled", "completed", "paused"}

(* A nullable field is the empty set (null / absent) or a singleton. *)
Null == {}
Some(v) == {v}
Val(o) == CHOOSE v \in o : TRUE

Max(a, b) == IF a >= b THEN a ELSE b

\* Math.min of two numbers
MathMin(a, b) == IF a <= b THEN a ELSE b

\* a mutation of MathCeil: Math.floor in place of Math.ceil
MathCeilAsFloor(n, d) == n \div d

\* a mutation of MathCeil: every started lease is billed at least one unit
MathCeilAtLeastOne(n, d) == (n \div d) + 1

\* Math.ceil(n / d) for integers n and d > 0: n / d is the correctly rounded
\* quotient, an integer exactly when d divides n, and otherwise far enough
\* from one for Math.ceil to give the next integer above
MathCeil(n, d) == IF n % d = 0 THEN n \div d ELSE (n \div d) + 1

\* completeTransaction: the points billed for durationSeconds of a lease
UsedPoints(pointsUsed, durationSeconds) ==
    LET expectedDuration == pointsUsed * SecondsPerPoint
        usedDuration == MathMin(durationSeconds, expectedDuration)
    IN  MathCeil(usedDuration, SecondsPerPoint)

\* completeTransaction: refundPoints
RefundPoints(pointsUsed, durationSeconds) ==
    pointsUsed - UsedPoints(pointsUsed, durationSeconds)

----------------------------------------------------------------------------
(* gpioControl: the relay outputs, with the MockGpio class as Gpio.  No     *)
(* request handler imports the module; its functions are driven by         *)
(* SpecRelay below.                                                        *)

\* lineMap: socket number -> GPIO line
LineMap == [s \in {1, 2} |-> IF s = 1 THEN 73 ELSE 70]

\* the socket numbers a caller passes: the mapped ones and one that is not
SocketNumbers == DOMAIN LineMap \cup {3}

\* new MockGpio(pin, 'out'): a new object, told from every other object by
\* its id, the number of objects constructed so far
MockGpio(pin) == [id |-> constructed + 1, pin |-> pin, direction |-> "out", value |-> 0]

\* a mutation of WriteSync: the write inverts the value of the object
WriteSyncInverting(gpio, value) == [gpio EXCEPT !.value = 1 - gpio.value]

\* MockGpio.writeSync(value)
WriteSync(gpio, value) == [gpio EXCEPT !.value = value]

\* a mutation of InstanceOrNew: a Gpio object is kept only while its
\* output is on
InstanceKeptWhileOn(instance, pin) ==
    IF instance # Null /\ Val(instance).value = 1 THEN instance
    ELSE Some(MockGpio(pin))

\* a mutation of InstanceOrNew: a new Gpio object on every call
InstanceAlwaysNew(instance, pin) == Some(MockGpio(pin))

\* turnOnSocket / turnOffSocket: the Gpio object kept for the socket, a new one
\* if there is none yet
InstanceOrNew(instance, pin) == IF instance = Null THEN Some(MockGpio(pin)) ELSE instance

\* what a call did: the value of the Gpio object it wrote before and after
\* the write (both 0 and threw for a call that threw before writing)
Call(op, socketNumber, before, after, threw) ==
    [op |-> op, socketNumber |-> socketNumber, before |-> before, after |-> after,
     threw |-> threw]

\* the body shared by turnOnSocket (value 1) and turnOffSocket (value 0)
WriteSocket(op, socketNumber, value) ==
    /\ running
    /\ Len(calls) < MaxCalls
    /\ IF socketNumber \notin DOMAIN LineMap
       THEN /\ calls' = Append(calls, Call(op, socketNumber, 0, 0, TRUE))
            /\ UNCHANGED <<gpioInstances, constructed>>
       ELSE LET instance == InstanceOrNew(gpioInstances[socketNumber], LineMap[socketNumber])
                gpio == Val(instance)
            IN  /\ gpioInstances' =
                      [gpioInstances EXCEPT ![socketNumber] = Some(WriteSync(gpio, value))]
                /\ calls' = Append(calls, Call(op, socketNumber, gpio.value, value, FALSE))
                /\ constructed' = Max(constructed, gpio.id)
    /\ UNCHANGED running

turnOnSocket(socketNumber) ==
    /\ WriteSocket("on", socketNumber, 1)
    /\ UNCHANGED <<students, transactions, now, pc, ctx, resp, requests, debited, credited, queryVars, registerVars>>

turnOffSocket(socketNumber) ==
    /\ WriteSocket("off", socketNumber, 0)
    /\ UNCHANGED <<students, transactions, now, pc, ctx, resp, requests, debited, credited, queryVars, registerVars>>

\* Object.entries(gpioInstances): the sockets that have a Gpio object, in
\* ascending order of their number
Entries == SelectSeq(<<1, 2>>, LAMBDA s : gpioInstances[s] # Null)

\* the SIGINT handler: every kept Gpio object is written 0 and unexported,
\* then the process exits
Sigint ==
    /\ running
    /\ running' = FALSE
    /\ gpioInstances' =
          [s \in DOMAIN gpioInstances |->
              IF gpioInstances[s] = Null THEN Null
              ELSE Some(WriteSync(Val(gpioInstances[s]), 0))]
    /\ calls' = calls \o [i \in 1..Len(Entries) |->
                             Call("cleanup", Entries[i],
                                  Val(gpioInstances[Entries[i]]).value, 0, FALSE)]
    /\ UNCHANGED constructed
    /\ UNCHANGED <<students, transactions, now, pc, ctx, resp, requests, debited, credited, queryVars, registerVars>>

\* the process ends in any other way (SIGTERM, an uncaught exception, a
\* call of process.exit elsewhere): only SIGINT has a handler, nothing is
\* written
Terminate ==
    /\ running
    /\ running' = FALSE
    /\ UNCHANGED <<gpioInstances, calls, constructed>>
    /\ UNCHANGED <<students, transactions, now, pc, ctx, resp, requests, debited, credited, queryVars, registerVars>>

\* the module as loaded: no Gpio object yet
InitRelay ==
    /\ gpioInstances = [s \in DOMAIN LineMap |-> Null]
    /\ running = TRUE
    /\ calls = <<>>
    /\ constructed = 0

----------------------------------------------------------------------------
(* The store *)

TxIds == 1..Len(transactions)

\* a mutation of ActiveDocs: the query lacks the rfid filter
ActiveDocsOfAnyHolder(r) == {i \in TxIds : transactions[i].status = "in-progress"}

\* query(collection "transactions", where rfid == r, where status == "in-progress")
ActiveDocs(r) ==
    {i \in TxIds : transactions[i].rfid = r /\ transactions[i].status = "in-progress"}

\* The stop request bodies of Spec: every status for every stored lease, one
\* body without an id and one with an id that is not in the store
StopBodies ==
    {[transactionId |-> i, status |-> st] : i \in TxIds, st \in StatusChoices}
    \cup {[transactionId |-> 0, status |-> "completed"],
          [transactionId |-> Len(transactions) + 1, status |-> "cancelled"]}

\* a mutation of GetActiveTransaction: the first document of the query is
\* returned without looking at createdAt
GetActiveTransactionFirst(r) ==
    IF ActiveDocs(r) = {} THEN Null
    ELSE Some(CHOOSE i \in ActiveDocs(r) : \A j \in ActiveDocs(r) : i <= j)

\* getActiveTransaction: null, or the id of the in-progress document of r with
\* the latest createdAt (the first such document in query order)
GetActiveTransaction(r) ==
    IF ActiveDocs(r) = {} THEN Null
    ELSE Some(CHOOSE i \in ActiveDocs(r) :
                 \A j \in ActiveDocs(r) :
                    \/ transactions[j].createdAt < transactions[i].createdAt
                    \/ (transactions[j].createdAt = transactions[i].createdAt /\ i <= j))

----------------------------------------------------------------------------
(* The read-only queries of TransactionModel.  A query result lists the    *)
(* ids of the documents returned, in the order returned.                   *)

\* query(collection "transactions", where rfid == rfid): the ids of the
\* documents of the holder, in the order the store returns them
StudentDocs(rfid) ==
    LET OfHolder(i) == transactions[i].rfid = rfid
    IN  SelectSeq([i \in TxIds |-> i], OfHolder)

\* getDocs(collection "transactions"): the ids of all documents
AllDocs == [i \in TxIds |-> i]

\* a mutation of SortByCreatedAtDesc: the documents stay in query order
Unsorted(ids) == ids

\* transactions.sort((a, b) => timeB - timeA): a stable sort by createdAt,
\* newest first. The document at place k of ids moves to the place after
\* the newer documents and the equally old ones that were before it.
SortByCreatedAtDesc(ids) ==
    LET Before(j, k) ==
            \/ transactions[ids[j]].createdAt > transactions[ids[k]].createdAt
            \/ /\ transactions[ids[j]].createdAt = transactions[ids[k]].createdAt
               /\ j < k
        place == [k \in 1..Len(ids) |->
                    Cardinality({j \in 1..Len(ids) : Before(j, k)}) + 1]
    IN  [n \in 1..Len(ids) |-> ids[CHOOSE k \in 1..Len(ids) : place[k] = n]]

\* Array.prototype.slice(0, end): a negative end counts from the end
Slice(seq, end) ==
    LET e == IF end < 0 THEN Max(Len(seq) + end, 0) ELSE MathMin(end, Len(seq))
    IN  SubSeq(seq, 1, e)

\* a default parameter value: used when the argument is absent
DefaultTo(argument, default) == IF argument = Null THEN default ELSE Val(argument)

\* getStudentTransactions(rfid, limitCount = 50)
getStudentTransactions(rfid, limitCount) ==
    Slice(SortByCreatedAtDesc(StudentDocs(rfid)),
          DefaultTo(limitCount, HistoryDefault))

\* getAllTransactions(limitCount = 100)
getAllTransactions(limitCount) ==
    Slice(SortByCreatedAtDesc(AllDocs),
          DefaultTo(limitCount, AllDefault))

\* a mutation of MathRound: the quotient is rounded down
MathRoundDown(n, d) == n \div d

\* Math.round(n / d) for d > 0: the nearest whole number, a half rounded up
MathRound(n, d) == (2 * n + d) \div (2 * d)

\* the counters of getStudentStats before the first document
NoStats ==
    [totalSessions |-> 0, totalPointsUsed |-> 0, totalDuration |-> 0,
     completedSessions |-> 0, cancelledSessions |-> 0]

\* the body of querySnapshot.forEach in getStudentStats
AddToStats(acc, data) ==
    [totalSessions |-> acc.totalSessions + 1,
     totalPointsUsed |-> acc.totalPointsUsed + data.pointsUsed,
     totalDuration |->
        IF data.duration # Null /\ Val(data.duration) # 0
        THEN acc.totalDuration + Val(data.duration)
        ELSE acc.totalDuration,
     completedSessions |->
        IF data.status = "completed" THEN acc.completedSessions + 1
        ELSE acc.completedSessions,
     cancelledSessions |->
        IF data.status # "completed" /\ data.status = "cancelled"
        THEN acc.cancelledSessions + 1
        ELSE acc.cancelledSessions]

\* the counters after the documents ids, visited in order
RECURSIVE StatsAfter(_)
StatsAfter(ids) ==
    IF ids = <<>> THEN NoStats
    ELSE AddToStats(StatsAfter(SubSeq(ids, 1, Len(ids) - 1)),
                    transactions[ids[Len(ids)]])

\* getStudentStats: the counters and the two averages
getStudentStats(rfid) ==
    LET c == StatsAfter(StudentDocs(rfid))
    IN  [totalSessions |-> c.totalSessions,
         totalPointsUsed |-> c.totalPointsUsed,
         totalDuration |-> c.totalDuration,
         completedSessions |-> c.completedSessions,
         cancelledSessions |-> c.cancelledSessions,
         averagePointsPerSession |->
            IF c.totalSessions > 0 THEN MathRound(c.totalPointsUsed, c.totalSessions)
            ELSE 0,
         averageDuration |->
            IF c.totalSessions > 0 THEN MathRound(c.totalDuration, c.totalSessions)
            ELSE 0]

\* the getAllTransactions endpoint: parseInt(req.query.limit) || 100
ParsedLimit(limit) == IF limit = Null \/ Val(limit) = 0 THEN AllDefault ELSE Val(limit)

\* what a query returned
Result(op, rfid, limit, value) ==
    [op |-> op, rfid |-> rfid, limit |-> limit, value |-> value]
NoResult == Result("none", "", Null, <<>>)

\* the responses: HTTP status code, the success flag and the error message
NoResp == [code |-> 0, success |-> FALSE, error |-> ""]
Ok == [code |-> 200, success |-> TRUE, error |-> ""]
Err(c, m) == [code |-> c, success |-> FALSE, error |-> m]

\* the catch block of startChargingSession: the error's message is sent
StartCaught(message) == Err(500, message)

\* a mutation of StopCaught: the error's message is replaced by a fixed text
StopCaughtGeneric(message) == Err(500, "Internal server error")

\* the catch block of stopChargingSession: the error's message is sent
StopCaught(message) == Err(500, message)

IdleCtx ==
    [op |-> "none", rfid |-> "", pointsToSpend |-> 0, socketType |-> "",
     socketNumber |-> 0, transactionId |-> 0, status |-> "", finalStatus |-> "",
     expectedEndTime |-> 0, currentPoints |-> 0, remainingPoints |-> 0,
     lastUsed |-> 0, transaction |-> Null, transactionData |-> Null,
     actualEndTime |-> 0, durationSeconds |-> 0, refundPoints |-> 0,
     usedPoints |-> 0, refundWritten |-> FALSE, newId |-> 0, overlaps |-> {}]

InFlight(p) == pc[p] \notin {"idle", "done"}

\* a request is taken by the first handler that is not running
Accepts(p) == ~InFlight(p) /\ \A q \in Procs : q < p => InFlight(q)

\* what stays known of a handler once it has answered: the request and
\* which of its writes were applied
Finished(c) ==
    [IdleCtx EXCEPT !.op = c.op, !.rfid = c.rfid,
                    !.pointsToSpend = c.pointsToSpend,
                    !.transactionId = c.transactionId,
                    !.finalStatus = c.finalStatus,
                    !.transactionData =
                        IF c.transactionData = Null THEN Null
                        ELSE Some([status |-> Val(c.transactionData).status]),
                    !.newId = c.newId,
                    !.refundWritten = c.refundWritten,
                    !.overlaps = c.overlaps]

\* handler p ends with locals c: the response r is sent
Respond(p, r, c) ==
    /\ pc' = [pc EXCEPT ![p] = "done"]
    /\ resp' = [resp EXCEPT ![p] = r]
    /\ ctx' = [ctx EXCEPT ![p] = Finished(c)]

\* handler p, with locals c, awaits its next store operation l
Goto(p, l, c) ==
    /\ pc' = [pc EXCEPT ![p] = l]
    /\ ctx' = [ctx EXCEPT ![p] = c]
    /\ UNCHANGED resp

----------------------------------------------------------------------------
(* registerUser.  An account document is modelled by its points, lastUsed, *)
(* email and authUid; a user of Firebase Authentication by uid and email,  *)
(* both of which Firebase keeps unique.                                     *)

Emails == {"e1", "e2", "e3"}

\* the email each holder of the lease specifications registered with
EmailOf == [h \in Holders |-> IF h = "h1" THEN "e1" ELSE "e2"]

\* the uid Firebase gives a user created with the client SDK: not an RFID
ClientUid == [e \in Emails |-> IF e = "e1" THEN "u1" ELSE IF e = "e2" THEN "u2" ELSE "u3"]

AuthUser(uid, email) == [uid |-> uid, email |-> email]

\* the request bodies of registerUser: every RFID with every email, and one
\* body without an RFID
RegisterBodies ==
    {[rfid |-> r, email |-> e] : r \in Holders, e \in Emails}
    \cup {[rfid |-> "", email |-> "e3"]}

IdleReg ==
    [pc |-> "idle", rfid |-> "", email |-> "", createdAuthUser |-> Null,
     redirect |-> "", error |-> ""]

\* no registerUser request has arrived; the holders have their users
NoRegistration ==
    /\ authUsers = {AuthUser(h, EmailOf[h]) : h \in Holders}
    /\ adminAvailable = FALSE
    /\ reg = [p \in Procs |-> IdleReg]

\* what registerUser never touches
LeaseState == <<transactions, now, pc, ctx, resp, debited, credited, relayVars, queryVars>>

\* res.redirect("/register?error=" + msg): the handler ends
RegisterFails(p, msg) ==
    reg' = [reg EXCEPT ![p].pc = "done", ![p].redirect = "/register", ![p].error = msg]

\* the handler awaits its next operation l
RegisterGoto(p, l) == reg' = [reg EXCEPT ![p].pc = l]

\* the request arrives and its required fields are checked
RegisterUser(p, rfid, email) ==
    /\ reg[p].pc = "idle"
    /\ \A q \in Procs : q < p => reg[q].pc # "idle"
    /\ requests' = requests + 1
    /\ IF rfid = "" \/ email = ""
       THEN reg' = [reg EXCEPT ![p] =
                       [IdleReg EXCEPT !.pc = "done", !.rfid = rfid, !.email = email,
                                       !.redirect = "/register",
                                       !.error = "Missing required fields"]]
       ELSE reg' = [reg EXCEPT ![p] =
                       [IdleReg EXCEPT !.pc = "getDoc", !.rfid = rfid, !.email = email]]
    /\ UNCHANGED <<students, authUsers, adminAvailable, LeaseState>>

\* existing = await getDoc(students/rfid)
RegisterGetDoc(p) ==
    /\ reg[p].pc = "getDoc"
    /\ IF reg[p].rfid \in DOMAIN students
       THEN RegisterFails(p, "RFID already registered")
       ELSE RegisterGoto(p, "getDocs")
    /\ UNCHANGED <<students, authUsers, adminAvailable, requests, LeaseState>>

\* querySnapshot = await getDocs(students where email == email); then the
\* way to create the user is chosen
RegisterGetDocs(p) ==
    /\ reg[p].pc = "getDocs"
    /\ IF \E r \in DOMAIN students : students[r].email = reg[p].email
       THEN RegisterFails(p, "Email already registered")
       ELSE RegisterGoto(p, IF adminAvailable THEN "adminCreateUser" ELSE "createUser")
    /\ UNCHANGED <<students, authUsers, adminAvailable, requests, LeaseState>>

\* Firebase Authentication accepts a new user with this uid and email
AuthAccepts(uid, email) ==
    \A u \in authUsers : u.uid # uid /\ u.email # email

\* await authAdmin.createUser({uid: rfid, email, ...}) succeeds
RegisterAdminCreateUser(p) ==
    /\ reg[p].pc = "adminCreateUser"
    /\ AuthAccepts(reg[p].rfid, reg[p].email)
    /\ authUsers' = authUsers \cup {AuthUser(reg[p].rfid, reg[p].email)}
    /\ reg' = [reg EXCEPT ![p].pc = "setDoc",
                          ![p].createdAuthUser = Some(AuthUser(reg[p].rfid, reg[p].email))]
    /\ UNCHANGED <<students, adminAvailable, requests, LeaseState>>

\* authAdmin.createUser rejects (the uid or the email is taken, or the
\* service cannot be reached): the client SDK is tried
RegisterAdminCreateUserFails(p) ==
    /\ reg[p].pc = "adminCreateUser"
    /\ RegisterGoto(p, "createUser")
    /\ UNCHANGED <<students, authUsers, adminAvailable, requests, LeaseState>>

\* await createUserWithEmailAndPassword(auth, email, password) succeeds
RegisterCreateUser(p) ==
    /\ reg[p].pc = "createUser"
    /\ AuthAccepts(ClientUid[reg[p].email], reg[p].email)
    /\ authUsers' = authUsers \cup {AuthUser(ClientUid[reg[p].email], reg[p].email)}
    /\ reg' = [reg EXCEPT ![p].pc = "setDoc",
                          ![p].createdAuthUser =
                              Some(AuthUser(ClientUid[reg[p].email], reg[p].email))]
    /\ UNCHANGED <<students, adminAvailable, requests, LeaseState>>

\* createUserWithEmailAndPassword rejects
RegisterCreateUserFails(p) ==
    /\ reg[p].pc = "createUser"
    /\ RegisterFails(p, "Failed to create authentication user. Configure firebase-admin or check Firebase project settings.")
    /\ UNCHANGED <<students, authUsers, adminAvailable, requests, LeaseState>>

\* the document registerUser writes
NewStudent(email, authUid) ==
    [points |-> RegisterPoints, lastUsed |-> Null, email |-> email, authUid |-> authUid]

\* setDoc(students/rfid, data): the document is created or replaced
SetDoc(rfid, data) ==
    [r \in DOMAIN students \cup {rfid} |-> IF r = rfid THEN data ELSE students[r]]

\* the password is hashed; await setDoc(rfidRef, {...}) succeeds;
\* res.redirect("/login?success=1")
RegisterSetDoc(p) ==
    /\ reg[p].pc = "setDoc"
    /\ students' = SetDoc(reg[p].rfid,
                          NewStudent(reg[p].email, Val(reg[p].createdAuthUser).uid))
    /\ reg' = [reg EXCEPT ![p].pc = "done", ![p].redirect = "/login"]
    /\ UNCHANGED <<authUsers, adminAvailable, requests, LeaseState>>

\* the catch block of setDoc: the user is deleted only if the Admin SDK is
\* there and the user's uid is the RFID
RollsBack(createdAuthUser, rfid) ==
    adminAvailable /\ createdAuthUser # Null /\ Val(createdAuthUser).uid = rfid

\* setDoc rejects
RegisterSetDocFails(p) ==
    /\ reg[p].pc = "setDoc"
    /\ IF RollsBack(reg[p].createdAuthUser, reg[p].rfid)
       THEN RegisterGoto(p, "deleteUser")
       ELSE RegisterFails(p, "Failed to save user data, please try again.")
    /\ UNCHANGED <<students, authUsers, adminAvailable, requests, LeaseState>>

\* await authAdmin.deleteUser(createdAuthUser.uid) succeeds
RegisterDeleteUser(p) ==
    /\ reg[p].pc = "deleteUser"
    /\ authUsers' = {u \in authUsers : u.uid # Val(reg[p].createdAuthUser).uid}
    /\ RegisterFails(p, "Failed to save user data, please try again.")
    /\ UNCHANGED <<students, adminAvailable, requests, LeaseState>>

\* authAdmin.deleteUser rejects: the error is logged
RegisterDeleteUserFails(p) ==
    /\ reg[p].pc = "deleteUser"
    /\ RegisterFails(p, "Failed to save user data, please try again.")
    /\ UNCHANGED <<students, authUsers, adminAvailable, requests, LeaseState>>

\* the lease Init of Spec holds: two points, started by h1 at time 0
InitLease ==
    [rfid |-> "h1", pointsUsed |-> 2, socketType |-> "Universal Charger",
     socketNumber |-> 1, startTime |-> 0, expectedEndTime |-> 2 * SecondsPerPoint,
     actualEndTime |-> Null, status |-> "in-progress",
     remainingPoints |-> InitPoints - 2, duration |-> Null, createdAt |-> 0,
     updatedAt |-> 0, pointsRefunded |-> Null, actualPointsUsed |-> Null]

\* The store at time 0: every holder had InitPoints points, h1 has just
\* started a lease (debited), h2 has none; no handler is running.
Init ==
    /\ students = [h \in Holders |->
                     IF h = "h1"
                     THEN [points |-> InitPoints - 2, lastUsed |-> Some(0)]
                     ELSE [points |-> InitPoints, lastUsed |-> Null]]
    /\ transactions = <<InitLease>>
    /\ now = 0
    /\ pc = [p \in Procs |-> "idle"]
    /\ ctx = [p \in Procs |-> IdleCtx]
    /\ resp = [p \in Procs |-> NoResp]
    /\ requests = 0
    /\ debited = <<Some(2)>>
    /\ credited = << <<>> >>
    /\ InitRelay
    /\ result = NoResult
    /\ NoRegistration

----------------------------------------------------------------------------
(* startChargingSession, with TransactionModel.createTransaction inlined.  *)
(* A parameter t is the value the clock returns in that step: t >= now.    *)

\* JavaScript falsiness of a numeric and of a string request field
FalsyNumber(n) == n = 0
FalsyString(v) == v = ""

\* a mutation of StudentDocExists: the controller does not test the snapshot
StudentDocExistsUntested(rfid) == TRUE

\* startChargingSession: studentDoc.exists() of the controller's own read
StudentDocExists(rfid) == rfid \in DOMAIN students

\* the request arrives; the fields are validated; getDoc(students/rfid)
StartChargingSession(p, rfid, pointsToSpend, socketType, socketNumber) ==
    /\ Accepts(p)
    /\ requests' = requests + 1
    /\ LET c == [IdleCtx EXCEPT !.op = "start", !.rfid = rfid,
                                !.pointsToSpend = pointsToSpend,
                                !.socketType = socketType,
                                !.socketNumber = socketNumber,
                                !.overlaps =
                                    {q \in Procs \ {p} : InFlight(q) /\ ctx[q].op = "start"}]
       IN  IF \/ FalsyString(rfid) \/ FalsyNumber(pointsToSpend)
              \/ FalsyString(socketType) \/ FalsyNumber(socketNumber)
           THEN Respond(p, Err(400, "Missing required fields"), c)
           ELSE IF ~StudentDocExists(rfid)
           THEN Respond(p, Err(404, "Student not found"), c)
           ELSE Goto(p, "getActiveTransaction", c)
    /\ UNCHANGED <<students, transactions, now, debited, credited, relayVars, queryVars, registerVars>>

\* getActiveTransaction(rfid) returns; the expected end time is computed
CheckActiveTransaction(p, t) ==
    /\ pc[p] = "getActiveTransaction"
    /\ t >= now
    /\ now' = t
    /\ IF GetActiveTransaction(ctx[p].rfid) # Null
       THEN Respond(p, Err(400, "You already have an active charging session"), ctx[p])
       ELSE Goto(p, "createTransaction",
                 [ctx[p] EXCEPT !.expectedEndTime =
                                   t + ctx[p].pointsToSpend * SecondsPerPoint])
    /\ UNCHANGED <<students, transactions, requests, debited, credited, relayVars, queryVars, registerVars>>

\* the transaction document createTransaction builds
NewTransaction(c, remainingPoints, t) ==
    [rfid |-> c.rfid,
     pointsUsed |-> c.pointsToSpend,
     socketType |-> c.socketType,
     socketNumber |-> c.socketNumber,
     startTime |-> t,
     expectedEndTime |-> c.expectedEndTime,
     actualEndTime |-> Null,
     status |-> "in-progress",
     remainingPoints |-> remainingPoints,
     duration |-> Null,
     createdAt |-> t,
     updatedAt |-> t,
     pointsRefunded |-> Null,
     actualPointsUsed |-> Null]

\* a mutation of InsufficientPoints: the balance is never checked
InsufficientPointsNever(currentPoints, pointsToSpend) == FALSE

\* a mutation of InsufficientPoints: a lease may cost one point more than
\* the balance
InsufficientPointsOffByOne(currentPoints, pointsToSpend) == currentPoints + 1 < pointsToSpend

\* the balance check of createTransaction
InsufficientPoints(currentPoints, pointsToSpend) == currentPoints < pointsToSpend

\* createTransaction: getDoc(students/rfid) returns; balance check; the
\* document is built
CreateTransactionRead(p, t) ==
    /\ pc[p] = "createTransaction"
    /\ t >= now
    /\ now' = t
    /\ IF ctx[p].rfid \notin DOMAIN students
       THEN Respond(p, StartCaught("Student not found"), ctx[p])
       ELSE LET currentPoints == students[ctx[p].rfid].points
                remainingPoints == currentPoints - ctx[p].pointsToSpend
            IN  IF InsufficientPoints(currentPoints, ctx[p].pointsToSpend)
                THEN Respond(p, StartCaught("Insufficient points"), ctx[p])
                ELSE Goto(p, "addDoc",
                          [ctx[p] EXCEPT
                             !.currentPoints = currentPoints,
                             !.remainingPoints = remainingPoints,
                             !.transaction =
                                 Some(NewTransaction(ctx[p], remainingPoints, t))])
    /\ UNCHANGED <<students, transactions, requests, debited, credited, relayVars, queryVars, registerVars>>

\* createTransaction: addDoc(transactions) succeeds
CreateTransactionAddDoc(p, t) ==
    /\ pc[p] = "addDoc"
    /\ t >= now
    /\ now' = t
    /\ transactions' = Append(transactions, Val(ctx[p].transaction))
    /\ debited' = Append(debited, Null)
    /\ credited' = Append(credited, <<>>)
    /\ Goto(p, "updateStudent",
            [ctx[p] EXCEPT !.newId = Len(transactions) + 1, !.lastUsed = t])
    /\ UNCHANGED <<students, requests, relayVars, queryVars, registerVars>>

\* createTransaction: addDoc(transactions) rejects
CreateTransactionAddDocFails(p) ==
    /\ pc[p] = "addDoc"
    /\ Respond(p, StartCaught("unavailable"), ctx[p])
    /\ UNCHANGED <<students, transactions, now, requests, debited, credited, relayVars, queryVars, registerVars>>

\* createTransaction: updateDoc(students/rfid, {points, lastUsed}) succeeds;
\* startChargingSession then reads the balance back for its response (the
\* balance reported is not part of the model) and answers
CreateTransactionDebit(p) ==
    /\ pc[p] = "updateStudent"
    /\ ctx[p].rfid \in DOMAIN students
    /\ students' = [students EXCEPT ![ctx[p].rfid] =
                       [points |-> ctx[p].remainingPoints,
                        lastUsed |-> Some(ctx[p].lastUsed)]]
    /\ debited' = [debited EXCEPT ![ctx[p].newId] = Some(ctx[p].pointsToSpend)]
    /\ Respond(p, Ok, ctx[p])
    /\ UNCHANGED <<transactions, now, requests, credited, relayVars, queryVars, registerVars>>

\* createTransaction: updateDoc(students/rfid) rejects
CreateTransactionDebitFails(p) ==
    /\ pc[p] = "updateStudent"
    /\ Respond(p, StartCaught("unavailable"), ctx[p])
    /\ UNCHANGED <<students, transactions, now, requests, debited, credited, relayVars, queryVars, registerVars>>

----------------------------------------------------------------------------
(* stopChargingSession, with TransactionModel.completeTransaction inlined  *)

\* a mutation of FinalStatus: the requested status is passed on as it is
FinalStatusAsRequested(status) == status

\* stopChargingSession: the status the request asks for, normalised
FinalStatus(status) == IF status = "cancelled" THEN "cancelled" ELSE "completed"

\* a mutation of RefundBranch: the requested status is not looked at
RefundBranchAnyStatus(status, transactionData) == transactionData.status = "in-progress"

\* completeTransaction: the refund branch is taken
RefundBranch(status, transactionData) ==
    status = "cancelled" /\ transactionData.status = "in-progress"

\* a mutation of RefundIsPositive: a refund of zero points is written too
RefundIsNotNegative(refundPoints) == refundPoints >= 0

\* completeTransaction: the refund is written only if it is positive
RefundIsPositive(refundPoints) == refundPoints > 0

\* the locals of completeTransaction once getDoc(transactions/id) has
\* returned transactionData at clock value t
CompleteTransactionLocals(c, transactionData, t) ==
    LET durationSeconds == t - transactionData.startTime
        refunding == RefundBranch(c.finalStatus, transactionData)
    IN  [c EXCEPT !.rfid = transactionData.rfid,
                  !.transactionData = Some(transactionData),
                  !.actualEndTime = t,
                  !.durationSeconds = durationSeconds,
                  !.usedPoints =
                      IF refunding
                      THEN UsedPoints(transactionData.pointsUsed, durationSeconds)
                      ELSE 0,
                  !.refundPoints =
                      IF refunding
                      THEN RefundPoints(transactionData.pointsUsed, durationSeconds)
                      ELSE 0]

\* the request arrives; getDoc(transactions/id) returns; end time, duration
\* and refund are computed from the document as read
StopChargingSession(p, transactionId, status, t) ==
    /\ Accepts(p)
    /\ t >= now
    /\ now' = t
    /\ requests' = requests + 1
    /\ LET c0 == [IdleCtx EXCEPT !.op = "stop", !.transactionId = transactionId,
                                 !.status = status,
                                 !.finalStatus = FinalStatus(status)]
       IN  IF FalsyNumber(transactionId)
           THEN Respond(p, Err(400, "Transaction ID is required"), c0)
           ELSE IF transactionId \notin TxIds
           THEN Respond(p, StopCaught("Transaction not found"), c0)
           ELSE LET c == CompleteTransactionLocals(c0, transactions[transactionId], t)
                IN  IF RefundIsPositive(c.refundPoints)
                    THEN Goto(p, "refundRead", c)
                    ELSE Goto(p, "updateTransaction", c)
    /\ UNCHANGED <<students, transactions, debited, credited, relayVars, queryVars, registerVars>>

\* completeTransaction: getDoc(students/rfid) returns the balance to refund to
CompleteTransactionRead(p) ==
    /\ pc[p] = "refundRead"
    /\ IF ctx[p].rfid \in DOMAIN students
       THEN Goto(p, "refundWrite",
                 [ctx[p] EXCEPT !.currentPoints = students[ctx[p].rfid].points])
       ELSE Goto(p, "updateTransaction", ctx[p])
    /\ UNCHANGED <<students, transactions, now, requests, debited, credited, relayVars, queryVars, registerVars>>

\* completeTransaction: updateDoc(students/rfid, {points}) succeeds
CompleteTransactionCredit(p) ==
    /\ pc[p] = "refundWrite"
    /\ ctx[p].rfid \in DOMAIN students
    /\ students' = [students EXCEPT ![ctx[p].rfid].points =
                       ctx[p].currentPoints + ctx[p].refundPoints]
    /\ credited' = [credited EXCEPT ![ctx[p].transactionId] =
                       Append(@, ctx[p].refundPoints)]
    /\ Goto(p, "updateTransaction", [ctx[p] EXCEPT !.refundWritten = TRUE])
    /\ UNCHANGED <<transactions, now, requests, debited, relayVars, queryVars, registerVars>>

\* completeTransaction: updateDoc(students/rfid) rejects
CompleteTransactionCreditFails(p) ==
    /\ pc[p] = "refundWrite"
    /\ Respond(p, StopCaught("unavailable"), ctx[p])
    /\ UNCHANGED <<students, transactions, now, requests, debited, credited, relayVars, queryVars, registerVars>>

\* the document after updateDoc(transactions/id, updates)
UpdatedTransaction(doc, c) ==
    LET base == [doc EXCEPT !.status = c.finalStatus,
                            !.actualEndTime = Some(c.actualEndTime),
                            !.duration = Some(c.durationSeconds),
                            !.updatedAt = c.actualEndTime]
    IN  IF c.refundWritten
        THEN [base EXCEPT !.pointsRefunded = Some(c.refundPoints),
                          !.actualPointsUsed = Some(c.usedPoints),
                          !.remainingPoints = c.currentPoints + c.refundPoints]
        ELSE base

\* completeTransaction: updateDoc(transactions/id, updates) succeeds;
\* stopChargingSession then reads the balance for its response (the balance
\* reported is not part of the model) and answers
CompleteTransactionUpdate(p) ==
    /\ pc[p] = "updateTransaction"
    /\ transactions' = [transactions EXCEPT ![ctx[p].transactionId] =
                           UpdatedTransaction(@, ctx[p])]
    /\ Respond(p, Ok, ctx[p])
    /\ UNCHANGED <<students, now, requests, debited, credited, relayVars, queryVars, registerVars>>

\* completeTransaction: updateDoc(transactions/id) rejects
CompleteTransactionUpdateFails(p) ==
    /\ pc[p] = "updateTransaction"
    /\ Respond(p, StopCaught("unavailable"), ctx[p])
    /\ UNCHANGED <<students, transactions, now, requests, debited, credited, relayVars, queryVars, registerVars>>

----------------------------------------------------------------------------
(* addPoints *)

\* the request bodies of addPoints: an account with a lease, one without an
\* account document
AddPointsBodies ==
    {[rfid |-> h, points |-> n] : h \in {"h1", "h0"}, n \in {0, 1000}}

\* addPoints: updateDoc(students/rfid, {points}) with the number of the
\* request body; updateDoc rejects when the document does not exist
AddPoints(p, rfid, points) ==
    /\ Accepts(p)
    /\ requests' = requests + 1
    /\ LET c == [IdleCtx EXCEPT !.op = "addPoints", !.rfid = rfid]
       IN  IF rfid \in DOMAIN students
           THEN /\ students' = [students EXCEPT ![rfid].points = points]
                /\ Respond(p, Ok, c)
           ELSE /\ Respond(p, Err(500, "No document to update"), c)
                /\ UNCHANGED students
    /\ UNCHANGED <<transactions, now, debited, credited, relayVars, queryVars, registerVars>>

\* a mutation of TickUntil: a timer completes every lease whose expected end
\* has come
TickUntilExpiring(limit) ==
    /\ now < limit
    /\ now' = now + TickStep
    /\ transactions' =
          [i \in TxIds |->
              IF /\ transactions[i].status = "in-progress"
                 /\ transactions[i].expectedEndTime <= now + TickStep
              THEN [transactions[i] EXCEPT !.status = "completed"]
              ELSE transactions[i]]
    /\ UNCHANGED <<students, pc, ctx, resp, requests, debited, credited, relayVars, queryVars, registerVars>>

\* time passes, up to the clock value limit: the program has no timer, so
\* nothing but the clock changes
TickUntil(limit) ==
    /\ now < limit
    /\ now' = now + TickStep
    /\ UNCHANGED <<students, transactions, pc, ctx, resp, requests, debited, credited, relayVars, queryVars, registerVars>>

\* time passes
Tick == TickUntil(MaxTicks * TickStep)

----------------------------------------------------------------------------
(* Spec: two concurrent request handlers, any requests, a coarse clock *)

Start(p) ==
    /\ requests < MaxRequests
    /\ \E b \in StartBodies :
          StartChargingSession(p, b.rfid, b.pointsToSpend, b.socketType, b.socketNumber)

Stop(p) ==
    /\ requests < MaxRequests
    /\ \E b \in StopBodies :
          StopChargingSession(p, b.transactionId, b.status, now)

Next ==
    \/ \E p \in Procs : Start(p)
    \/ \E p \in Procs : CheckActiveTransaction(p, now)
    \/ \E p \in Procs : CreateTransactionRead(p, now)
    \/ \E p \in Procs : CreateTransactionAddDoc(p, now)
    \/ \E p \in Procs : CreateTransactionAddDocFails(p)
    \/ \E p \in Procs : CreateTransactionDebit(p)
    \/ \E p \in Procs : CreateTransactionDebitFails(p)
    \/ \E p \in Procs : Stop(p)
    \/ \E p \in Procs : CompleteTransactionRead(p)
    \/ \E p \in Procs : CompleteTransactionCredit(p)
    \/ \E p \in Procs : CompleteTransactionCreditFails(p)
    \/ \E p \in Procs : CompleteTransactionUpdate(p)
    \/ \E p \in Procs : CompleteTransactionUpdateFails(p)
    \/ Tick

Spec == Init /\ [][Next]_vars

----------------------------------------------------------------------------
(* SpecBilling: the first lease of a freshly registered account, of one to *)
(* MaxPoints points, started at time 0 and stopped once, at any second up  *)
(* to MaxOvertime past its expected end; one handler at a time, no store   *)
(* operation fails.                                                        *)

InitBilling ==
    /\ students = [h \in Holders |-> [points |-> RegisterPoints, lastUsed |-> Null]]
    /\ transactions = <<>>
    /\ now = 0
    /\ pc = [p \in Procs |-> "idle"]
    /\ ctx = [p \in Procs |-> IdleCtx]
    /\ resp = [p \in Procs |-> NoResp]
    /\ requests = 0
    /\ debited = <<>>
    /\ credited = <<>>
    /\ InitRelay
    /\ result = NoResult
    /\ NoRegistration

BillingStart ==
    /\ transactions = <<>>
    /\ \E n \in 1..MaxPoints :
          StartChargingSession(1, "h1", n, "Universal Charger", 1)

BillingStop ==
    /\ ActiveDocs("h1") # {}
    /\ \E status \in {"cancelled", "completed"},
          t \in now..(transactions[1].expectedEndTime + MaxOvertime) :
          StopChargingSession(1, 1, status, t)

NextBilling ==
    \/ BillingStart
    \/ CheckActiveTransaction(1, now)
    \/ CreateTransactionRead(1, now)
    \/ CreateTransactionAddDoc(1, now)
    \/ CreateTransactionDebit(1)
    \/ BillingStop
    \/ CompleteTransactionRead(1)
    \/ CompleteTransactionCredit(1)
    \/ CompleteTransactionUpdate(1)

SpecBilling == InitBilling /\ [][NextBilling]_vars

----------------------------------------------------------------------------
(* SpecLate: the store of Spec with its lease of h1 in progress, up to      *)
(* MaxLateRequests requests to the start, stop and add-points endpoints,    *)
(* and a clock that runs past the lease's expected end.                     *)

LateStart(p) ==
    /\ requests < MaxLateRequests
    /\ \E b \in StartBodies :
          StartChargingSession(p, b.rfid, b.pointsToSpend, b.socketType, b.socketNumber)

\* the stop request bodies of SpecLate: those of Spec, and for every stored
\* lease a body without a status ("") and bodies with other strings
LateStopBodies ==
    StopBodies
    \cup {[transactionId |-> i, status |-> st] :
             i \in TxIds, st \in {"", "Cancelled", "in-progress"}}

LateStop(p) ==
    /\ requests < MaxLateRequests
    /\ \E b \in LateStopBodies :
          StopChargingSession(p, b.transactionId, b.status, now)

LateAddPoints(p) ==
    /\ requests < MaxLateRequests
    /\ \E b \in AddPointsBodies : AddPoints(p, b.rfid, b.points)

NextLate ==
    \/ \E p \in Procs : LateStart(p)
    \/ \E p \in Procs : LateAddPoints(p)
    \/ \E p \in Procs : CheckActiveTransaction(p, now)
    \/ \E p \in Procs : CreateTransactionRead(p, now)
    \/ \E p \in Procs : CreateTransactionAddDoc(p, now)
    \/ \E p \in Procs : CreateTransactionAddDocFails(p)
    \/ \E p \in Procs : CreateTransactionDebit(p)
    \/ \E p \in Procs : CreateTransactionDebitFails(p)
    \/ \E p \in Procs : LateStop(p)
    \/ \E p \in Procs : CompleteTransactionRead(p)
    \/ \E p \in Procs : CompleteTransactionCredit(p)
    \/ \E p \in Procs : CompleteTransactionCreditFails(p)
    \/ \E p \in Procs : CompleteTransactionUpdate(p)
    \/ \E p \in Procs : CompleteTransactionUpdateFails(p)
    \/ TickUntil(MaxLateTicks * TickStep)

SpecLate == Init /\ [][NextLate]_vars

----------------------------------------------------------------------------
(* SpecQueries: the read-only queries, asked of every store of up to        *)
(* MaxDocs documents and of one store with more documents than the largest *)
(* default limit.                                                           *)

\* a stored lease, as far as the queries look at it
QueryDoc(rfid, status, createdAt) ==
    [rfid |-> rfid, pointsUsed |-> 1, socketType |-> "Universal Charger",
     socketNumber |-> 1, startTime |-> createdAt,
     expectedEndTime |-> createdAt + SecondsPerPoint,
     actualEndTime |-> IF status = "in-progress" THEN Null ELSE Some(createdAt),
     status |-> status, remainingPoints |-> RegisterPoints - 1,
     duration |-> IF status = "in-progress" THEN Null ELSE Some(0),
     createdAt |-> createdAt, updatedAt |-> createdAt,
     pointsRefunded |-> Null, actualPointsUsed |-> Null]

QueryDocChoices ==
    {QueryDoc(h, st, c) :
        h \in Holders, st \in {"in-progress", "completed"}, c \in 0..MaxCreatedAt}

\* every store of up to MaxDocs documents, in every query order
SmallStores == UNION {[1..n -> QueryDocChoices] : n \in 0..MaxDocs}

\* a store of AllDefault + 1 completed leases, three of every four of h1
LargeStore ==
    [i \in 1..(AllDefault + 1) |->
        QueryDoc(IF i % 4 = 0 THEN "h2" ELSE "h1", "completed", i % (MaxCreatedAt + 1))]

InitQueries ==
    /\ transactions \in SmallStores \cup {LargeStore}
    /\ students = [h \in Holders |-> [points |-> RegisterPoints, lastUsed |-> Null]]
    /\ now = MaxCreatedAt
    /\ pc = [p \in Procs |-> "idle"]
    /\ ctx = [p \in Procs |-> IdleCtx]
    /\ resp = [p \in Procs |-> NoResp]
    /\ requests = 0
    /\ debited = [i \in TxIds |-> Some(1)]
    /\ credited = [i \in TxIds |-> <<>>]
    /\ InitRelay
    /\ result = NoResult
    /\ NoRegistration

\* the limits a caller passes: none, or a number from -1 to MaxLimit
Limits == {Null} \cup {Some(n) : n \in -1..MaxLimit}

\* the store is only read: nothing but the result changes. One query is
\* asked of each store, since a query leaves nothing a later one could see.
Returns(r) ==
    /\ result = NoResult
    /\ result' = r
    /\ UNCHANGED <<students, transactions, now, pc, ctx, resp, requests, debited,
                   credited, relayVars, registerVars>>

\* the getActiveChargingSession endpoint
GetActiveChargingSession(rfid) ==
    Returns(Result("active", rfid, Null,
                   IF GetActiveTransaction(rfid) = Null THEN <<>>
                   ELSE <<Val(GetActiveTransaction(rfid))>>))

\* TransactionModel.getStudentTransactions called with a limit, or without
\* one as the getStudentTransactionHistory endpoint does
GetStudentTransactions(rfid, limitCount) ==
    Returns(Result("history", rfid, limitCount, getStudentTransactions(rfid, limitCount)))

\* TransactionModel.getAllTransactions called with a limit or without
GetAllTransactions(limitCount) ==
    Returns(Result("all", "", limitCount, getAllTransactions(limitCount)))

\* the getAllTransactions endpoint, with the limit of the query string
GetAllTransactionsEndpoint(limit) ==
    Returns(Result("allEndpoint", "", limit, getAllTransactions(Some(ParsedLimit(limit)))))

NextQueries ==
    \/ \E rfid \in Holders \cup {"h0"} : GetActiveChargingSession(rfid)
    \/ \E rfid \in Holders \cup {"h0"}, limitCount \in Limits :
          GetStudentTransactions(rfid, limitCount)
    \/ \E limitCount \in Limits : GetAllTransactions(limitCount)
    \/ \E limit \in Limits : GetAllTransactionsEndpoint(limit)

SpecQueries == InitQueries /\ [][NextQueries]_vars

----------------------------------------------------------------------------
(* SpecStats: getStudentStats, asked of every store of up to MaxStatDocs   *)
(* documents: leases of h1 in every status with differing points and       *)
(* durations, and leases of h2 among them.                                 *)

\* a stored lease, as far as getStudentStats looks at it
StatsDoc(rfid, status, pointsUsed, duration) ==
    [QueryDoc(rfid, status, 0) EXCEPT
        !.pointsUsed = pointsUsed,
        !.duration = duration,
        !.actualEndTime = IF duration = Null THEN Null ELSE Some(Val(duration))]

StatsDocChoices ==
    {StatsDoc("h1", "in-progress", n, Null) : n \in 1..MaxStatPoints}
    \cup {StatsDoc("h1", st, n, Some(d)) :
            st \in {"completed", "cancelled"}, n \in 1..MaxStatPoints, d \in {0, MaxStatDuration}}
    \cup {StatsDoc("h2", "completed", MaxStatPoints, Some(MaxStatDuration))}

StatsStores == UNION {[1..n -> StatsDocChoices] : n \in 0..MaxStatDocs}

InitStats ==
    /\ transactions \in StatsStores
    /\ students = [h \in Holders |-> [points |-> RegisterPoints, lastUsed |-> Null]]
    /\ now = MaxStatDuration
    /\ pc = [p \in Procs |-> "idle"]
    /\ ctx = [p \in Procs |-> IdleCtx]
    /\ resp = [p \in Procs |-> NoResp]
    /\ requests = 0
    /\ debited = [i \in TxIds |-> Some(transactions[i].pointsUsed)]
    /\ credited = [i \in TxIds |-> <<>>]
    /\ InitRelay
    /\ result = NoResult
    /\ NoRegistration

\* TransactionModel.getStudentStats, as the getStudentTransactionHistory
\* endpoint calls it
GetStudentStats(rfid) ==
    Returns(Result("stats", rfid, Null, <<getStudentStats(rfid)>>))

NextStats == \E rfid \in Holders \cup {"h0"} : GetStudentStats(rfid)

SpecStats == InitStats /\ [][NextStats]_vars

----------------------------------------------------------------------------
(* SpecRegister: up to MaxRegistrations registerUser requests, two at a    *)
(* time, with or without the Admin SDK.  h1 has an account it has spent    *)
(* two points of; h2 has none.                                             *)

InitRegister ==
    /\ students = [h \in {"h1"} |->
                     [points |-> RegisterPoints - 2, lastUsed |-> Some(0),
                      email |-> "e1", authUid |-> "h1"]]
    /\ authUsers = {AuthUser("h1", "e1")}
    /\ adminAvailable \in BOOLEAN
    /\ reg = [p \in Procs |-> IdleReg]
    /\ transactions = <<>>
    /\ now = 0
    /\ pc = [p \in Procs |-> "idle"]
    /\ ctx = [p \in Procs |-> IdleCtx]
    /\ resp = [p \in Procs |-> NoResp]
    /\ requests = 0
    /\ debited = <<>>
    /\ credited = <<>>
    /\ InitRelay
    /\ result = NoResult

RegisterRequest(p) ==
    /\ requests < MaxRegistrations
    /\ \E b \in RegisterBodies : RegisterUser(p, b.rfid, b.email)

NextRegister ==
    \/ \E p \in Procs : RegisterRequest(p)
    \/ \E p \in Procs : RegisterGetDoc(p)
    \/ \E p \in Procs : RegisterGetDocs(p)
    \/ \E p \in Procs : RegisterAdminCreateUser(p)
    \/ \E p \in Procs : RegisterAdminCreateUserFails(p)
    \/ \E p \in Procs : RegisterCreateUser(p)
    \/ \E p \in Procs : RegisterCreateUserFails(p)
    \/ \E p \in Procs : RegisterSetDoc(p)
    \/ \E p \in Procs : RegisterSetDocFails(p)
    \/ \E p \in Procs : RegisterDeleteUser(p)
    \/ \E p \in Procs : RegisterDeleteUserFails(p)

SpecRegister == InitRegister /\ [][NextRegister]_vars

----------------------------------------------------------------------------
(* SpecRelay: a caller of gpioControl makes up to MaxCalls calls of          *)
(* turnOnSocket and turnOffSocket with any socket numbers; the process may  *)
(* receive SIGINT, or end in another way, at any time.  The store is the    *)
(* one of a fresh server and no request is served.                          *)

NextRelay ==
    \/ \E socketNumber \in SocketNumbers : turnOnSocket(socketNumber)
    \/ \E socketNumber \in SocketNumbers : turnOffSocket(socketNumber)
    \/ Sigint
    \/ Terminate

SpecRelay == InitBilling /\ [][NextRelay]_vars

----------------------------------------------------------------------------
(* Properties *)

Terminal == {"completed", "cancelled"}

RECURSIVE SumSeq(_)
SumSeq(q) == IF q = <<>> THEN 0 ELSE Head(q) + SumSeq(Tail(q))

\* the leases of holder h
LeasesOf(h) == {i \in TxIds : transactions[i].rfid = h}

RECURSIVE SumOver(_, _)
SumOver(f(_), S) ==
    IF S = {} THEN 0
    ELSE LET i == CHOOSE x \in S : TRUE IN f(i) + SumOver(f, S \ {i})

Reserved(i) == transactions[i].pointsUsed
Refunded(i) ==
    IF transactions[i].pointsRefunded = Null THEN 0
    ELSE Val(transactions[i].pointsRefunded)

\* the least whole number of units of d seconds that cover x seconds
CeilingUnits(x, d) == CHOOSE n \in 0..(x + 1) : n * d >= x /\ (n - 1) * d < x

\* the refund the billing rule defines for p reserved points after e seconds
RefundDue(p, e) ==
    Max(0, p - CeilingUnits(MathMin(e, SecondsPerPoint * p), SecondsPerPoint))

\* C1: every holder has at most one lease with status in-progress
C1_OneActiveLeasePerHolder ==
    \A h \in Holders : Cardinality(ActiveDocs(h)) <= 1

\* two finished start requests of one holder who held no lease before them,
\* p's accepted while q's was running, neither refused for its balance nor
\* hit by a store failure
ConcurrentStarts(p, q) ==
    /\ p # q
    /\ pc[p] = "done" /\ pc[q] = "done"
    /\ ctx[p].op = "start" /\ ctx[q].op = "start"
    /\ ctx[p].rfid = ctx[q].rfid
    /\ ctx[p].rfid \in Holders
    /\ ctx[p].pointsToSpend > 0 /\ ctx[q].pointsToSpend > 0
    /\ q \in ctx[p].overlaps
    /\ LeasesOf(ctx[p].rfid) \subseteq {ctx[p].newId, ctx[q].newId}
    /\ resp[p].error \notin {"unavailable", "Insufficient points"}
    /\ resp[q].error \notin {"unavailable", "Insufficient points"}

Conflict == Err(400, "You already have an active charging session")

\* C2: of two concurrent start requests of one holder with sufficient balance
\* exactly one succeeds, the other is answered Conflict, and the balance is
\* debited once
C2_ConcurrentStartsOneSucceeds ==
    \A p, q \in Procs :
        ConcurrentStarts(p, q) =>
            \/ /\ resp[p].success /\ resp[q] = Conflict
               /\ students[ctx[p].rfid].points = InitPoints - ctx[p].pointsToSpend
            \/ /\ resp[q].success /\ resp[p] = Conflict
               /\ students[ctx[q].rfid].points = InitPoints - ctx[q].pointsToSpend

\* C3: once the start request that added a lease has returned, the lease's
\* points have been debited from the balance
C3_StartDebitsWhatItCreates ==
    \A i \in TxIds :
        (\A p \in Procs : ~(InFlight(p) /\ ctx[p].newId = i)) => debited[i] # Null

\* no handler is running, every lease added was debited and every refund
\* written is recorded on its lease
Settled ==
    /\ \A p \in Procs : ~InFlight(p)
    /\ \A i \in TxIds :
          /\ debited[i] = Some(Reserved(i))
          /\ SumSeq(credited[i]) = Refunded(i)

\* C4: when all requests have run to completion, each balance is the initial
\* balance less the points reserved by the holder's leases plus the points
\* refunded on them
C4_NoLostBalanceUpdate ==
    Settled =>
        \A h \in Holders :
            students[h].points =
                InitPoints - SumOver(Reserved, LeasesOf(h)) + SumOver(Refunded, LeasesOf(h))

\* C5: the refund of a lease is written to the balance at most once
C5_RefundCreditedAtMostOnce ==
    \A i \in TxIds : Len(credited[i]) <= 1

\* C6: a stop request that finds the lease already completed or cancelled is
\* refused
C6_StopOnTerminalRefused ==
    \A p \in Procs :
        (/\ pc[p] = "done" /\ ctx[p].op = "stop"
         /\ ctx[p].transactionData # Null
         /\ Val(ctx[p].transactionData).status \in Terminal)
        => ~resp[p].success

\* C7: the status of a completed or cancelled lease never changes
C7_TerminalStatusFinal ==
    [][\A i \in TxIds :
          transactions[i].status \in Terminal =>
              transactions'[i].status = transactions[i].status]_vars

\* C8: a recorded refund is positive and at most the points reserved, and
\* the refunds written to the balance for a lease total at most the points
\* it reserved
C8_RefundWithinReserved ==
    \A i \in TxIds :
        Reserved(i) > 0 =>
            /\ transactions[i].pointsRefunded # Null =>
                  (0 < Refunded(i) /\ Refunded(i) <= Reserved(i))
            /\ SumSeq(credited[i]) <= Reserved(i)

\* C9: a cancelled lease of p points stopped after e seconds has had exactly
\* max(0, p - ceil(min(e, 120 p) / 120)) points credited to the balance
C9_CancelCreditsRefundDue ==
    \A i \in TxIds :
        transactions[i].status = "cancelled" =>
            LET p == Reserved(i)
                e == Val(transactions[i].duration)
                h == transactions[i].rfid
            IN  /\ SumSeq(credited[i]) = RefundDue(p, e)
                /\ Refunded(i) = RefundDue(p, e)
                /\ students[h].points = RegisterPoints - p + RefundDue(p, e)

\* C9 witness: a 10-point lease cancelled after 125 seconds, 8 points credited
C9_Witness ==
    /\ Len(transactions) = 1
    /\ transactions[1].status = "cancelled"
    /\ transactions[1].pointsUsed = 10
    /\ transactions[1].duration = Some(125)
    /\ credited[1] = <<8>>

\* C10: a lease cancelled after 0 seconds has all its points refunded and the
\* balance is back to its value before the start
C10_ImmediateCancelRefundsAll ==
    \A i \in TxIds :
        (transactions[i].status = "cancelled" /\ transactions[i].duration = Some(0)) =>
            /\ transactions[i].pointsRefunded = Some(Reserved(i))
            /\ credited[i] = <<Reserved(i)>>
            /\ students[transactions[i].rfid].points = RegisterPoints

\* C10 witness: a 10-point lease cancelled at once, balance back to 100
C10_Witness ==
    /\ Len(transactions) = 1
    /\ transactions[1].status = "cancelled"
    /\ transactions[1].pointsUsed = 10
    /\ transactions[1].duration = Some(0)
    /\ students["h1"].points = RegisterPoints

\* C11: a lease of p points cancelled after 120 p seconds or more has no
\* refund: nothing is credited, the balance stays at its value after the
\* debit and the lease records no pointsRefunded
C11_LateCancelRefundsNothing ==
    \A i \in TxIds :
        (/\ transactions[i].status = "cancelled"
         /\ Val(transactions[i].duration) >= SecondsPerPoint * Reserved(i)) =>
            /\ transactions[i].pointsRefunded = Null
            /\ credited[i] = <<>>
            /\ students[transactions[i].rfid].points = RegisterPoints - Reserved(i)

\* C11 witness: a 10-point lease cancelled after exactly 1200 seconds
C11_Witness ==
    /\ Len(transactions) = 1
    /\ transactions[1].status = "cancelled"
    /\ transactions[1].pointsUsed = 10
    /\ transactions[1].duration = Some(10 * SecondsPerPoint)
    /\ students["h1"].points = RegisterPoints - 10

\* the step is one of handler p: its request is accepted, or it performs
\* the store operation it was waiting for
StepOf(p) ==
    \/ Accepts(p) /\ requests' # requests
    \/ InFlight(p) /\ pc'[p] # pc[p]

\* C12: no step of a stop request whose final status is completed changes
\* any balance, whatever the lease's status and age when the request arrives
C12_CompletedStopKeepsBalance ==
    [][\A p \in Procs :
          (StepOf(p) /\ ctx'[p].op = "stop" /\ ctx'[p].finalStatus = "completed")
              => students' = students]_vars

\* C12 witness: the lease of Init, for which a cancel at once would refund
\* both points, has been stopped as completed and the balance is the one
\* the debit left
C12_Witness ==
    \E p \in Procs :
        /\ pc[p] = "done" /\ ctx[p].op = "stop" /\ resp[p].success
        /\ ctx[p].finalStatus = "completed"
        /\ ctx[p].transactionId = 1
        /\ Val(ctx[p].transactionData).status = "in-progress"
        /\ transactions[1].status = "completed"
        /\ transactions[1].duration = Some(0)
        /\ students["h1"].points = InitPoints - 2

\* C13: a stop request whose transaction id is not in the store is answered
\* at once with the failure "Transaction not found", and no balance and no
\* lease changes
C13_StopUnknownIdNotFound ==
    [][\A p \in Procs :
          (/\ Accepts(p) /\ requests' # requests
           /\ ctx'[p].op = "stop"
           /\ ~FalsyNumber(ctx'[p].transactionId)
           /\ ctx'[p].transactionId \notin TxIds)
          => /\ pc'[p] = "done"
             /\ ~resp'[p].success
             /\ resp'[p].error = "Transaction not found"
             /\ students' = students
             /\ transactions' = transactions]_vars

\* C13 witness: a stop request for an id the store does not hold was refused
C13_Witness ==
    \E p \in Procs :
        /\ pc[p] = "done" /\ ctx[p].op = "stop"
        /\ ctx[p].transactionId = Len(transactions) + 1
        /\ resp[p].error = "Transaction not found"

\* C14: a start request with all fields for a holder without an account is
\* answered at once with 404 "Student not found", and no lease is added and
\* no balance changes
C14_StartUnknownHolderNotFound ==
    [][\A p \in Procs :
          (/\ Accepts(p) /\ requests' # requests
           /\ ctx'[p].op = "start"
           /\ ~FalsyString(ctx'[p].rfid)
           /\ ~FalsyNumber(ctx'[p].pointsToSpend)
           /\ ctx'[p].rfid \notin DOMAIN students)
          => /\ pc'[p] = "done"
             /\ resp'[p] = Err(404, "Student not found")
             /\ ctx'[p].newId = 0
             /\ students' = students
             /\ transactions' = transactions]_vars

\* C14 witness: a start request of "h0", who has no account, was refused
C14_Witness ==
    \E p \in Procs :
        /\ pc[p] = "done" /\ ctx[p].op = "start"
        /\ ctx[p].rfid = "h0" /\ ctx[p].rfid \notin DOMAIN students
        /\ resp[p] = Err(404, "Student not found")

\* C15: when createTransaction reads a balance smaller than pointsToSpend,
\* the start request is answered with the failure "Insufficient points", no
\* lease is added and no balance changes
C15_StartInsufficientBalance ==
    [][\A p \in Procs :
          (/\ pc[p] = "createTransaction" /\ pc'[p] # pc[p]
           /\ ctx[p].rfid \in DOMAIN students
           /\ students[ctx[p].rfid].points < ctx[p].pointsToSpend)
          => /\ pc'[p] = "done"
             /\ ~resp'[p].success
             /\ resp'[p].error = "Insufficient points"
             /\ ctx'[p].newId = 0
             /\ students' = students
             /\ transactions' = transactions]_vars

\* C15 witness: a start request for more points than the holder had was
\* refused and the holder still has fewer points than it asked for
C15_Witness ==
    \E p \in Procs :
        /\ pc[p] = "done" /\ ctx[p].op = "start"
        /\ resp[p].error = "Insufficient points"
        /\ ctx[p].newId = 0
        /\ students[ctx[p].rfid].points < ctx[p].pointsToSpend

\* C16: every balance is an integer >= 0
C16_BalanceNeverNegative ==
    \A h \in DOMAIN students : students[h].points \in Nat

\* C16 witness: a start request has succeeded and spent the holder's last
\* point
C16_Witness ==
    \E p \in Procs :
        /\ pc[p] = "done" /\ ctx[p].op = "start" /\ resp[p].success
        /\ ctx[p].pointsToSpend > 0
        /\ students[ctx[p].rfid].points = 0

\* C17: the expected end of every lease of p > 0 points is exactly 120 p
\* seconds after its start
C17_ExpectedEndAfterStart ==
    \A i \in TxIds :
        transactions[i].pointsUsed > 0 =>
            transactions[i].expectedEndTime - transactions[i].startTime =
                SecondsPerPoint * transactions[i].pointsUsed

\* C18: a start request with pointsToSpend zero or negative is refused and
\* adds no lease, and no debit written for a lease raises the balance
C18_StartRequiresPositivePoints ==
    /\ \A p \in Procs :
          (pc[p] = "done" /\ ctx[p].op = "start" /\ ctx[p].pointsToSpend <= 0)
              => (~resp[p].success /\ ctx[p].newId = 0)
    /\ \A i \in TxIds : debited[i] # Null => Val(debited[i]) > 0

\* the output of socket s is on
OutputOn(s) ==
    /\ s \in DOMAIN gpioInstances
    /\ gpioInstances[s] # Null
    /\ Val(gpioInstances[s]).value = 1

\* the sockets of the leases in progress
SocketsInUse == {transactions[i].socketNumber : i \in {j \in TxIds : transactions[j].status = "in-progress"}}

\* C19: once a start request has succeeded, the output of its lease's socket
\* is on for as long as the lease is in progress; once a stop request has
\* succeeded, the output of its lease's socket is off unless another lease
\* in progress uses the socket
C19_SocketFollowsLease ==
    \A p \in Procs :
        (pc[p] = "done" /\ resp[p].success) =>
            /\ (ctx[p].op = "start" /\ transactions[ctx[p].newId].status = "in-progress")
                  => OutputOn(transactions[ctx[p].newId].socketNumber)
            /\ (ctx[p].op = "stop"
                 /\ transactions[ctx[p].transactionId].socketNumber \notin SocketsInUse)
                  => ~OutputOn(transactions[ctx[p].transactionId].socketNumber)

\* calls i < j are two calls in a row on one socket: the same function, the
\* same mapped socket number, and no call or cleanup on that socket between
InARow(i, j) ==
    /\ i < j
    /\ calls[i].op \in {"on", "off"}
    /\ calls[j].op = calls[i].op
    /\ calls[j].socketNumber = calls[i].socketNumber
    /\ ~calls[i].threw
    /\ \A k \in (i + 1)..(j - 1) : calls[k].socketNumber # calls[i].socketNumber

\* the number of changes of the output to value v made by calls i and j
TransitionsTo(v, i, j) ==
    (IF calls[i].before # v /\ calls[i].after = v THEN 1 ELSE 0)
    + (IF calls[j].before # v /\ calls[j].after = v THEN 1 ELSE 0)

\* C20: two calls of turnOnSocket in a row on one socket leave its output
\* on and change it from off to on exactly once if it was off before them
\* and not at all otherwise: the second call changes nothing.  The same for
\* turnOffSocket, with on and off exchanged.
C20_EnergizeIdempotent ==
    \A i, j \in 1..Len(calls) :
        InARow(i, j) =>
            LET v == IF calls[i].op = "on" THEN 1 ELSE 0
                s == calls[i].socketNumber
            IN  /\ calls[j].after = v
                /\ TransitionsTo(v, i, j) = (IF calls[i].before # v THEN 1 ELSE 0)
                /\ (\A k \in (j + 1)..Len(calls) : calls[k].socketNumber # s)
                      => /\ gpioInstances[s] # Null
                         /\ Val(gpioInstances[s]).value = v

\* C20 witness: socket 1, off at first, energized twice in a row and then
\* de-energized twice in a row; one change of the output each
C20_Witness ==
    /\ Len(calls) = 4
    /\ InARow(1, 2) /\ calls[1].op = "on" /\ calls[1].socketNumber = 1
    /\ InARow(3, 4) /\ calls[3].op = "off" /\ calls[3].socketNumber = 1
    /\ TransitionsTo(1, 1, 2) = 1
    /\ TransitionsTo(0, 3, 4) = 1
    /\ Val(gpioInstances[1]).value = 0

\* C21: once the process has ended, no socket output is on, and every Gpio
\* object the module kept was written 0 by the cleanup
C21_ShutdownDrivesAllOff ==
    ~running =>
        \A s \in DOMAIN gpioInstances :
            /\ ~OutputOn(s)
            /\ gpioInstances[s] # Null =>
                  \E k \in 1..Len(calls) :
                      calls[k].op = "cleanup" /\ calls[k].socketNumber = s

\* C22: a lease leaves in-progress only in a step of a stop request for it,
\* and a step in which only time passes changes no lease, no balance and no
\* socket output, also after the lease's expected end
C22_NoAutoExpiry ==
    [][/\ \A i \in TxIds :
            (transactions[i].status = "in-progress"
             /\ transactions'[i].status # "in-progress")
            => \E p \in Procs :
                  StepOf(p) /\ ctx[p].op = "stop" /\ ctx[p].transactionId = i
       /\ (\A p \in Procs : ~StepOf(p))
            => UNCHANGED <<students, transactions, gpioInstances>>]_vars

\* C22 witness: the clock is past the expected end of a lease that is still
\* in progress, and a start request of its holder made after that end was
\* refused because of it
C22_Witness ==
    \E i \in TxIds, p \in Procs :
        /\ transactions[i].status = "in-progress"
        /\ now > transactions[i].expectedEndTime
        /\ pc[p] = "done" /\ ctx[p].op = "start"
        /\ ctx[p].rfid = transactions[i].rfid
        /\ resp[p] = Conflict
        /\ students[transactions[i].rfid].points = InitPoints - transactions[i].pointsUsed

\* holder h has a lease in progress
HasLeaseInProgress(h) ==
    \E i \in TxIds : transactions[i].rfid = h /\ transactions[i].status = "in-progress"

\* C23: a step of a request of one holder leaves the balance and the leases
\* of every other holder as they were and adds no lease for them, and a
\* start request that is refused is refused for its own fields, its own
\* holder's account, lease in progress or balance, or a store failure
C23_HoldersIndependent ==
    [][\A p \in Procs :
          StepOf(p) =>
             /\ \A h \in Holders \ {ctx'[p].rfid} :
                   /\ students'[h] = students[h]
                   /\ \A i \in 1..Len(transactions') :
                         transactions'[i].rfid = h
                            => (i \in TxIds /\ transactions'[i] = transactions[i])
             /\ (ctx'[p].op = "start" /\ pc'[p] = "done" /\ ~resp'[p].success)
                   => \/ resp'[p].error = "unavailable"
                      \/ /\ resp'[p] = Err(400, "Missing required fields")
                         /\ FalsyNumber(ctx'[p].pointsToSpend)
                      \/ /\ resp'[p] = Err(404, "Student not found")
                         /\ ctx'[p].rfid \notin DOMAIN students
                      \/ /\ resp'[p] = Conflict
                         /\ HasLeaseInProgress(ctx'[p].rfid)
                      \/ /\ resp'[p].error = "Insufficient points"
                         /\ students[ctx'[p].rfid].points < ctx'[p].pointsToSpend]_vars

\* C23 witness: while a start request of h2 is between adding its lease and
\* debiting h2, a cancel of h1's lease has credited h1 and is about to
\* finalize the lease; h2's balance and lease are untouched by it
C23_Witness ==
    \E p, q \in Procs :
        /\ pc[p] = "updateTransaction" /\ ctx[p].op = "stop"
        /\ ctx[p].rfid = "h1" /\ ctx[p].refundWritten
        /\ students["h1"].points = InitPoints
        /\ pc[q] = "updateStudent" /\ ctx[q].op = "start"
        /\ ctx[q].rfid = "h2" /\ ctx[q].pointsToSpend > 0
        /\ students["h2"].points = InitPoints
        /\ transactions[ctx[q].newId] = Val(ctx[q].transaction)

\* C24: a balance changes only in the step of a start request that writes
\* its debit and in the step of a cancelling stop request that writes its
\* refund
C24_BalanceChangedOnlyByLease ==
    [][\A h \in DOMAIN students :
          students'[h].points # students[h].points =>
              \E p \in Procs :
                  \/ /\ pc[p] = "updateStudent" /\ ctx[p].op = "start"
                     /\ ctx[p].rfid = h
                  \/ /\ pc[p] = "refundWrite" /\ ctx[p].op = "stop"
                     /\ ctx[p].finalStatus = "cancelled" /\ ctx[p].rfid = h]_vars

\* C25: no two leases in progress of different holders have the same socket
\* number
C25_SocketExclusive ==
    \A i, j \in TxIds :
        (/\ transactions[i].status = "in-progress"
         /\ transactions[j].status = "in-progress"
         /\ transactions[i].rfid # transactions[j].rfid)
        => transactions[i].socketNumber # transactions[j].socketNumber

\* C26: when no stop request for a lease is running, a refund has been
\* written to the balance for it if and only if the lease is recorded as
\* cancelled with that refund as its pointsRefunded
C26_CancelCreditsAndFinalizes ==
    \A i \in TxIds :
        (\A p \in Procs :
            ~(InFlight(p) /\ ctx[p].op = "stop" /\ ctx[p].transactionId = i))
        => ((credited[i] # <<>>)
              <=> (/\ transactions[i].status = "cancelled"
                   /\ transactions[i].pointsRefunded # Null
                   /\ credited[i] = <<Val(transactions[i].pointsRefunded)>>))

\* C27: the status a stop request writes to its lease is cancelled if the
\* request's status is the string "cancelled" and completed for every other
\* value, an absent one included, and no step changes a lease's status to
\* anything but completed or cancelled
C27_StopNormalizesStatus ==
    [][/\ \A p \in Procs :
            (pc[p] = "updateTransaction" /\ pc'[p] = "done" /\ resp'[p].success)
            => transactions'[ctx[p].transactionId].status =
                  (IF ctx[p].status = "cancelled" THEN "cancelled" ELSE "completed")
       /\ \A i \in TxIds :
            transactions'[i].status # transactions[i].status
               => transactions'[i].status \in Terminal]_vars

\* C27 witness: a stop request without a status, for a lease in progress,
\* has had its status normalised to completed and is about to write it
C27_Witness ==
    \E p \in Procs :
        /\ pc[p] = "updateTransaction" /\ ctx[p].op = "stop"
        /\ ctx[p].status = ""
        /\ ctx[p].finalStatus = "completed"
        /\ transactions[ctx[p].transactionId].status = "in-progress"

\* a lease is added only by the addDoc of a start request
LeaseAddedByStart ==
    Len(transactions') # Len(transactions) =>
        \E p \in Procs :
            /\ pc[p] = "addDoc" /\ ctx[p].op = "start"
            /\ transactions' = Append(transactions, Val(ctx[p].transaction))

\* every start request for a positive number of points that has returned
\* after adding a lease has succeeded
StartsThatAddedSucceeded ==
    \A p \in Procs :
        (/\ pc[p] = "done" /\ ctx[p].op = "start"
         /\ ctx[p].pointsToSpend > 0 /\ ctx[p].newId # 0)
        => resp[p].success

\* a lease is changed only by the updateDoc of a stop request for it, which
\* keeps its holder, points, socket, start and expected end
LeaseChangedByStop ==
    \A i \in TxIds :
        transactions'[i] # transactions[i] =>
            /\ \E p \in Procs :
                  /\ pc[p] = "updateTransaction" /\ ctx[p].op = "stop"
                  /\ ctx[p].transactionId = i
            /\ transactions'[i].rfid = transactions[i].rfid
            /\ transactions'[i].pointsUsed = transactions[i].pointsUsed
            /\ transactions'[i].socketType = transactions[i].socketType
            /\ transactions'[i].socketNumber = transactions[i].socketNumber
            /\ transactions'[i].startTime = transactions[i].startTime
            /\ transactions'[i].expectedEndTime = transactions[i].expectedEndTime

\* C28: a lease is added only by a start request, and that request
\* succeeds; a lease is changed only by a stop request for it, which leaves
\* its holder, points, socket, start and expected end as they were
C28_LeaseWrittenOnlyByStartAndStop ==
    [][LeaseAddedByStart /\ StartsThatAddedSucceeded' /\ LeaseChangedByStop]_vars

\* the value of a query is one of the newest leases in progress of the
\* holder asked for, or nothing if the holder has none
ActiveCorrect(r) ==
    LET A == {i \in TxIds : transactions[i].rfid = r.rfid
                            /\ transactions[i].status = "in-progress"}
    IN  /\ (r.value = <<>>) <=> (A = {})
        /\ A # {} =>
              /\ Len(r.value) = 1
              /\ r.value[1] \in A
              /\ \A j \in A :
                    transactions[j].createdAt <= transactions[r.value[1]].createdAt

\* C29: getActiveTransaction returns nothing exactly when the holder has no
\* lease in progress, and otherwise a lease in progress of that holder with
\* the greatest createdAt; serving it changes no account and no lease
C29_GetActiveLeaseNewest ==
    [][(result'.op = "active" /\ result' # result)
          => (ActiveCorrect(result') /\ UNCHANGED <<students, transactions>>)]_vars

\* C29 witness: of two leases in progress of h1, the second one newer, the
\* query returned the second
C29_Witness ==
    /\ Len(transactions) = 2
    /\ \A i \in TxIds : transactions[i].rfid = "h1" /\ transactions[i].status = "in-progress"
    /\ transactions[1].createdAt < transactions[2].createdAt
    /\ result = Result("active", "h1", Null, <<2>>)

\* the value v lists max leases, or all if there are fewer, out of the set
\* M, without repetition, newest first, and no lease left out is newer
\* than one listed
NewestFirst(v, M, max) ==
    /\ \A k \in 1..Len(v) : v[k] \in M
    /\ \A k, l \in 1..Len(v) : k # l => v[k] # v[l]
    /\ \A k \in 1..(Len(v) - 1) :
          transactions[v[k]].createdAt >= transactions[v[k + 1]].createdAt
    /\ Len(v) = MathMin(max, Cardinality(M))
    /\ \A i \in M \ {v[k] : k \in 1..Len(v)} :
          \A k \in 1..Len(v) : transactions[i].createdAt <= transactions[v[k]].createdAt

\* the value of a list query is right, for a limit that is absent or a
\* natural number (a positive one in the query string of the endpoint)
ListCorrect(r) ==
    LET max == IF r.limit # Null THEN Val(r.limit)
               ELSE IF r.op = "history" THEN HistoryDefault ELSE AllDefault
    IN  /\ (r.op = "history" /\ max >= 0)
              => NewestFirst(r.value, {i \in TxIds : transactions[i].rfid = r.rfid}, max)
        /\ (r.op = "all" /\ max >= 0) => NewestFirst(r.value, TxIds, max)
        /\ (r.op = "allEndpoint" /\ max >= 1) => NewestFirst(r.value, TxIds, max)

NearestTo(r, n, d) == 2 * r * d - d <= 2 * n /\ 2 * n <= 2 * r * d + d

Duration(i) ==
    IF transactions[i].duration = Null THEN 0 ELSE Val(transactions[i].duration)

\* the statistics s are those of the leases of holder h
StatsCorrect(s, h) ==
    LET n == Cardinality(LeasesOf(h))
        WithStatus(st) == Cardinality({i \in LeasesOf(h) : transactions[i].status = st})
    IN  /\ s.totalSessions = n
        /\ s.totalPointsUsed = SumOver(Reserved, LeasesOf(h))
        /\ s.totalDuration = SumOver(Duration, LeasesOf(h))
        /\ s.completedSessions = WithStatus("completed")
        /\ s.cancelledSessions = WithStatus("cancelled")
        /\ s.completedSessions + s.cancelledSessions <= s.totalSessions
        /\ s.totalSessions - (s.completedSessions + s.cancelledSessions)
              = WithStatus("in-progress")
        /\ n > 0 => /\ NearestTo(s.averagePointsPerSession, s.totalPointsUsed, n)
                    /\ NearestTo(s.averageDuration, s.totalDuration, n)
        /\ n = 0 => \A f \in DOMAIN s : s[f] = 0

\* C31: getStudentStats counts the holder's leases, sums their reserved
\* points and their finalized durations, counts the completed and the
\* cancelled ones, which together with the leases in progress make up all
\* of them, gives as averages the totals divided by the count and rounded
\* to a nearest whole number, and gives 0 in every field for a holder
\* without leases; computing it changes no account and no lease
C31_StatsAggregateHolderLeases ==
    [][(result'.op = "stats" /\ result' # result)
          => (StatsCorrect(result'.value[1], result'.rfid)
              /\ UNCHANGED <<students, transactions>>)]_vars

\* C31 witness: the store holds three leases of h1, one of each status,
\* whose points do not divide by three and one of which took time; the
\* statistics of h1 were computed
C31_Witness ==
    /\ result.op = "stats" /\ result.rfid = "h1"
    /\ Len(transactions) = 3
    /\ {transactions[i].status : i \in LeasesOf("h1")}
          = {"in-progress", "completed", "cancelled"}
    /\ result.value[1].totalPointsUsed % 3 # 0
    /\ result.value[1].totalDuration > 0
    /\ result.value[1].averagePointsPerSession > 0

\* a call of turnOnSocket or turnOffSocket for socket s got past the
\* lookup in lineMap
Used(s) ==
    \E k \in 1..Len(calls) :
        calls[k].op \in {"on", "off"} /\ calls[k].socketNumber = s /\ ~calls[k].threw

\* C32: the module keeps a Gpio object for exactly the sockets that
\* turnOnSocket or turnOffSocket was called for, no object for two sockets,
\* and has constructed no other object; a call on a socket that has an
\* object leaves the socket that same object
C32_OneHandlePerSocket ==
    [][/\ \A s \in DOMAIN gpioInstances' : (gpioInstances'[s] # Null) <=> Used(s)'
       /\ \A s, t \in DOMAIN gpioInstances' :
             (s # t /\ gpioInstances'[s] # Null /\ gpioInstances'[t] # Null)
                => Val(gpioInstances'[s]).id # Val(gpioInstances'[t]).id
       /\ constructed' = Cardinality({s \in DOMAIN gpioInstances' : gpioInstances'[s] # Null})
       /\ \A s \in DOMAIN gpioInstances :
             gpioInstances[s] # Null =>
                /\ gpioInstances'[s] # Null
                /\ Val(gpioInstances'[s]).id = Val(gpioInstances[s]).id]_vars

\* C32 witness: socket 2 was first used by a turnOffSocket, socket 1 by a
\* turnOnSocket, each was called twice, and two objects exist
C32_Witness ==
    /\ Len(calls) = 4
    /\ calls[1].op = "off" /\ calls[1].socketNumber = 2
    /\ calls[2].op = "on" /\ calls[2].socketNumber = 1
    /\ \A k \in 1..Len(calls) : calls[k].socketNumber \in {1, 2} /\ calls[k].op # "cleanup"
    /\ Cardinality({k \in 1..Len(calls) : calls[k].socketNumber = 1}) = 2
    /\ Val(gpioInstances[2]).id = 1 /\ Val(gpioInstances[1]).id = 2
    /\ constructed = 2

\* the state a call asks for: on for turnOnSocket, off for turnOffSocket
Requested(op) == IF op = "on" THEN 1 ELSE 0

\* the calls of turnOnSocket and turnOffSocket for socket s so far
CallsFor(s) ==
    {k \in 1..Len(calls) : calls[k].op \in {"on", "off"} /\ calls[k].socketNumber = s}

\* the output of every socket called for is what the last call for it asked
LastWriteWins ==
    \A s \in DOMAIN LineMap :
        CallsFor(s) # {} =>
            LET last == CHOOSE k \in CallsFor(s) : \A j \in CallsFor(s) : j <= k
            IN  /\ gpioInstances[s] # Null
                /\ Val(gpioInstances[s]).value = Requested(calls[last].op)

\* the step is a call of turnOnSocket or turnOffSocket
IsCall == Len(calls') = Len(calls) + 1 /\ calls'[Len(calls')].op \in {"on", "off"}

C34_FailedRegistrationRollsBack ==
    [][\A p \in Procs :
          (reg[p].pc # "done" /\ reg'[p].pc = "done"
              /\ reg'[p].redirect = "/register" /\ reg'[p].createdAuthUser # Null)
             => Val(reg'[p].createdAuthUser) \notin authUsers']_vars

\* C35: no step of a registration changes or removes an account document
\* that exists, whether it existed when the request arrived or was written
\* by another registration since
C35_RegistrationNeverOverwrites ==
    [][\A r \in DOMAIN students :
          r \in DOMAIN students' /\ students'[r] = students[r]]_vars

====
